---- MODULE Spec2Model ----
(***************************************************************************)
(* State-machine model of jquery.google-analytics.js:                      *)
(*   $.trackPage   (page tracker initializer, deferred script loading)     *)
(*   $.trackEvent  (generic event tracker)                                 *)
(*   $.fn.track    (element event tracker) with evaluate and debug         *)
(*                                                                         *)
(* JavaScript values are written as the strings JavaScript converts them   *)
(* to: "undefined", "null", "true", "false", "200", ...  so that string    *)
(* concatenation in the code is string concatenation in the model.         *)
(***************************************************************************)
EXTENDS Integers, Sequences, FiniteSets, TLC

\* ------------------------------------------------------------------ bounds
\* Largest number of $.trackPage calls in a behaviour.
MaxPageCalls == 2
\* Largest number of _trackEvent recordings kept by the tracker.
MaxEvents == 2

\* ------------------------------------------------------------ environment
\* The anchors of the page.
Elements == {"a1", "a2"}
\* location.hostname of the page.
LocationHostname == "site.example"
\* The values an anchor's href attribute takes.
Hrefs == {"http://site.example/a", "http://other.example/b"}
\* element[0].hostname: the host part of an anchor's href.
Hostname(h) == IF h = "http://site.example/a" THEN "site.example" ELSE "other.example"
\* Account ids handed to $.trackPage; _gat._getTracker(id) yields the handle for id.
Accounts == {"UA-1", "UA-2"}
\* document.location.pathname / .search and document.referrer when init_analytics runs.
Locations ==
  { [pathname |-> "/foo", search |-> "?x=1", referrer |-> "https://ref.example"],
    [pathname |-> "/", search |-> "", referrer |-> ""] }

\* ------------------------------------------------------ JavaScript values
\* x == null in JavaScript: true of null and of undefined.
LooseNull(x) == x \in {"null", "undefined"}
\* x == true in JavaScript (true, 1 and "1" compare equal to true).
LooseTrue(x) == x \in {"true", "1"}
\* x == 200 in JavaScript.
Loose200(x) == x = "200"
\* Truthiness of a value in a condition.
Truthy(x) == x \notin {"false", "null", "undefined", "0", ""}

\* A settings value: a literal, or a function (named by v).
Lit(x) == [kind |-> "lit", v |-> x]
Fn(f) == [kind |-> "fn", v |-> f]
Undef == Lit("undefined")

\* The fields evaluate() is applied to, in the order of the code.
FieldOrder == <<"category", "action", "label", "value", "event_name">>
SettingNames == {"category", "action", "label", "value", "skip_internal", "event_name", "debug"}

\* $.fn.track.defaults as the plugin installs it.
TrackDefaults ==
  [category |-> Fn("defaultCategory"), action |-> Lit("click"), label |-> Fn("defaultLabel"),
   value |-> Lit("null"), skip_internal |-> Lit("true"), event_name |-> Lit("click"),
   debug |-> Lit("false")]

\* An options object naming no field.
NoOptions == [f \in SettingNames |-> Undef]
\* The options objects callers pass to $.fn.track.
TrackOptions ==
  { NoOptions,
    [NoOptions EXCEPT !.skip_internal = Lit("false"), !.event_name = Lit("mouseover")],
    [NoOptions EXCEPT !.category = Lit("nav"), !.label = Fn("idOf"), !.value = Lit("5")],
    [NoOptions EXCEPT !.action = Fn("raise")] }

\* A merge with the arguments exchanged: the fields of base win.
ExtendBaseWins(base, options) ==
  [f \in DOMAIN base |-> IF base[f] = Undef THEN options[f] ELSE base[f]]

\* $.extend({}, base, options): a field of options that is not undefined
\* replaces the field of base.
Extend(base, options) ==
  [f \in DOMAIN base |-> IF options[f] = Undef THEN base[f] ELSE options[f]]

\* ------------------------------------------------------------------ state
VARIABLES
  pageTracker,   \* the plugin's pageTracker: "undefined" or the handle of an account
  gat,           \* the global _gat: "undeclared" or "defined"
  windowLoaded,  \* whether the window's load event has fired
  loadHandlers,  \* load_script closures bound to the window's load event, in order
  pendingLoads,  \* $.getScript requests in flight, each with its callback's closure
  nPageCalls,    \* number of $.trackPage calls so far
  marked,        \* marked[e]: e has the class 'tracked'
  listeners,     \* listeners[e]: the handlers bound to e under the '.track' namespace
  href,          \* href[e]: e's href attribute
  defaults,      \* $.fn.track.defaults
  pageOptions,   \* an options object the page keeps, passes to $.fn.track and changes
  console,       \* whether console.debug exists
  nEvents,       \* _trackEvent recordings received by the tracker
  nPageviews,    \* _trackPageview recordings received by the tracker
  last           \* what the last operation did (calls made, errors raised)

vars == <<pageTracker, gat, windowLoaded, loadHandlers, pendingLoads, nPageCalls,
          marked, listeners, href, defaults, pageOptions, console, nEvents, nPageviews,
          last>>

\* ---------------------------------------------------------------- effects
\* The calls an operation has made so far:
\*   cb   settings callbacks invoked, as <<element, field>>
\*   ran  runs of bound listeners, as <<element, event name>>
\*   ret  the values the listener runs returned
\*   te   $.trackEvent invocations, as <<category, action, label, value>>
\*   rec  pageTracker._trackEvent calls, as [tracker, args]
\*   pv   pageTracker._trackPageview calls, as [tracker, args]
\*   gs   $.getScript requests started, as the account id of their closure
\*   dbg  debug() invocations; out: messages written with console.debug
\*   thrown  the error the operation raised ("none" if it returned)
NoEffects ==
  [cb |-> <<>>, ran |-> <<>>, ret |-> <<>>, te |-> <<>>, rec |-> <<>>, pv |-> <<>>, gs |-> <<>>,
   dbg |-> <<>>, out |-> <<>>, thrown |-> "none"]

\* A debug() that does not look for the console.
DebugNoConsoleCheck(message, eff, dflt, cons) ==
  IF Truthy(dflt.debug.v)
    THEN [eff EXCEPT !.dbg = Append(@, message), !.out = Append(@, message)]
    ELSE [eff EXCEPT !.dbg = Append(@, message)]

\* debug(message)
Debug(message, eff, dflt, cons) ==
  IF cons /\ Truthy(dflt.debug.v)
    THEN [eff EXCEPT !.dbg = Append(@, message), !.out = Append(@, message)]
    ELSE [eff EXCEPT !.dbg = Append(@, message)]

\* A $.trackEvent that records without looking at the handle.
TrackEventUnguarded(category, action, label, value, pt, eff, dflt, cons) ==
  [eff EXCEPT !.te = Append(@, <<category, action, label, value>>),
              !.rec = Append(@, [tracker |-> pt, args |-> <<category, action, label, value>>])]

\* A $.trackEvent that does not pass value on.
TrackEventNoValue(category, action, label, value, pt, eff, dflt, cons) ==
  LET called == [eff EXCEPT !.te = Append(@, <<category, action, label, value>>)] IN
  IF pt = "undefined"
    THEN Debug("FATAL ERROR: pageTracker is not defined", called, dflt, cons)
    ELSE [called EXCEPT !.rec =
            Append(@, [tracker |-> pt, args |-> <<category, action, label>>])]

\* $.trackEvent(category, action, label, value) with the handle pt.
TrackEvent(category, action, label, value, pt, eff, dflt, cons) ==
  LET called == [eff EXCEPT !.te = Append(@, <<category, action, label, value>>)] IN
  IF pt = "undefined"
    THEN Debug("FATAL ERROR: pageTracker is not defined", called, dflt, cons)
    ELSE [called EXCEPT !.rec =
            Append(@, [tracker |-> pt, args |-> <<category, action, label, value>>])]

\* ------------------------------------------------------------- $.fn.track
\* The value a settings callback returns for element e.
Apply(f, e, hrefs) ==
  CASE f = "defaultCategory" ->
         IF Hostname(hrefs[e]) = LocationHostname THEN "internal" ELSE "external"
    [] f = "defaultLabel" -> hrefs[e]
    [] OTHER -> e

\* Whether calling the settings value raises: a callback of the caller that throws.
Raises(x) == x.kind = "fn" /\ x.v = "raise"

\* evaluate(element, stringOrFunction)
Evaluate(e, x, hrefs) == IF x.kind = "fn" THEN Apply(x.v, e, hrefs) ELSE x.v

\* The five evaluate() calls of $.fn.track, from field i on. acc holds the values
\* resolved so far, the callbacks invoked, and the error raised by a callback.
RECURSIVE EvaluateSettings(_, _, _, _, _)
EvaluateSettings(e, settings, hrefs, i, acc) ==
  IF i > Len(FieldOrder) THEN acc
  ELSE LET f == FieldOrder[i]
           x == settings[f]
           acc1 == IF x.kind = "fn" THEN [acc EXCEPT !.cb = Append(@, <<e, f>>)] ELSE acc
       IN IF Raises(x)
            THEN [acc1 EXCEPT !.thrown = "raised by callback"]
            ELSE EvaluateSettings(e, settings, hrefs, i + 1,
                                  [acc1 EXCEPT !.vals[f] = Evaluate(e, x, hrefs)])

NoVals == [f \in {"category", "action", "label", "value", "event_name"} |-> "undefined"]

\* The message string built by $.fn.track.
Message(vals) ==
  "category:'" \o vals.category \o "' action:'" \o vals.action \o "' label:'"
    \o vals.label \o "' value:'" \o vals.value \o "'"

\* A guard that never finds the class.
HasTrackedClassNever(m, e) == FALSE

\* $element.hasClass('tracked')
HasTrackedClass(m, e) == m[e]

\* The body of the .each() callback for element seq[i] and the rest of the loop.
\* st holds marked, listeners and the effects so far. 'return false' from the
\* callback ends jQuery's each loop; an error raised by a callback leaves it.
RECURSIVE EachTrack(_, _, _, _, _, _, _)
EachTrack(seq, i, options, st, hrefs, dflt, cons) ==
  IF i > Len(seq) THEN st
  ELSE
    LET e == seq[i] IN
    IF HasTrackedClass(st.marked, e) THEN st
    ELSE
      LET m1 == [st.marked EXCEPT ![e] = TRUE]
          settings == Extend(dflt, options)
          ev == EvaluateSettings(e, settings, hrefs, 1,
                                 [vals |-> NoVals, cb |-> <<>>, thrown |-> "none"])
          eff1 == [st.eff EXCEPT !.cb = @ \o ev.cb]
      IN
      IF ev.thrown # "none"
        THEN [marked |-> m1, listeners |-> st.listeners,
              eff |-> [eff1 EXCEPT !.thrown = ev.thrown]]
        ELSE
          LET message == Message(ev.vals)
              eff2 == Debug("Tracking " \o ev.vals.event_name \o " " \o message,
                            eff1, dflt, cons)
              handler == [event_name |-> ev.vals.event_name, settings |-> settings,
                          vals |-> ev.vals, message |-> message]
          IN EachTrack(seq, i + 1, options,
                       [marked |-> m1,
                        listeners |-> [st.listeners EXCEPT ![e] = Append(@, handler)],
                        eff |-> eff2],
                       hrefs, dflt, cons)

\* ---------------------------------------------------- the bound listener
\* A skip test that ignores settings.skip_internal.
SkipAnyInternal(l, e, hrefs) == Hostname(hrefs[e]) = LocationHostname

\* var skip = settings.skip_internal && $element[0].hostname == location.hostname
Skip(l, e, hrefs) ==
  Truthy(l.settings.skip_internal.v) /\ Hostname(hrefs[e]) = LocationHostname

\* A listener that evaluates the settings when it runs.
ListenerArgsLazy(l, e, hrefs) ==
  LET ev == EvaluateSettings(e, l.settings, hrefs, 1,
                             [vals |-> NoVals, cb |-> <<>>, thrown |-> "none"])
  IN [vals |-> ev.vals, cb |-> ev.cb]

\* The category, action, label and value the listener passes on: the variables
\* of the enclosing $.fn.track call; no callback runs.
ListenerArgs(l, e, hrefs) == [vals |-> l.vals, cb |-> <<>>]

\* A settings object that is $.fn.track.defaults itself, not a copy of it.
ClosureSettingsAliased(l, dflt) == dflt

\* The settings object the listener closes over: the new object $.extend({}, ...)
\* filled when the listener was attached.
ClosureSettings(l, dflt) == l.settings

\* A listener that returns its skip flag negated: false when it skipped.
ListenerReturnNotSkipped(skip) == IF skip THEN "false" ELSE "true"

\* return true; at the end of the listener, after either branch.
ListenerReturn(skip) == "true"

\* One run of the listener l bound to e.
RunListener(l, e, pt, eff, hrefs, dflt, cons) ==
  LET eff0 == [eff EXCEPT !.ran = Append(@, <<e, l.event_name>>)]
      skip == Skip([l EXCEPT !.settings = ClosureSettings(l, dflt)], e, hrefs)
      done ==
        IF ~skip
          THEN LET a == ListenerArgs(l, e, hrefs)
                   eff1 == [eff0 EXCEPT !.cb = @ \o a.cb]
                   eff2 == TrackEvent(a.vals.category, a.vals.action, a.vals.label,
                                      a.vals.value, pt, eff1, dflt, cons)
               IN Debug("Tracked " \o l.message, eff2, dflt, cons)
          ELSE Debug("Skipped " \o l.message, eff0, dflt, cons)
  IN [done EXCEPT !.ret = Append(@, ListenerReturn(skip))]

\* Triggering event ev on e: the handlers bound to ev run in binding order.
RECURSIVE Trigger(_, _, _, _, _, _, _, _)
Trigger(ls, i, e, ev, pt, eff, hrefs, cfg) ==
  IF i > Len(ls) THEN eff
  ELSE IF ls[i].event_name = ev
    THEN Trigger(ls, i + 1, e, ev, pt,
                 RunListener(ls[i], e, pt, eff, hrefs, cfg.dflt, cfg.cons), hrefs, cfg)
    ELSE Trigger(ls, i + 1, e, ev, pt, eff, hrefs, cfg)

\* ------------------------------------------------------------ $.trackPage
\* The onload and status_code values callers pass ("undefined": not given).
OnloadValues == {"undefined", "true", "false", "null", "1"}
StatusValues == {"undefined", "null", "200", "404"}

\* The defaults $.trackPage merges the options over.
PageDefaults == [onload |-> Lit("true"), status_code |-> Lit("200")]

\* A test that leaves out the comparison with null.
DeferredOnlyTrue(onload) == LooseTrue(onload)

\* settings.onload == true || settings.onload == null
Deferred(onload) == LooseTrue(onload) \/ LooseNull(onload)

\* typeof _gat: a string, "undefined" for an undeclared global.
TypeofGat(g) == IF g = "defined" THEN [type |-> "string", s |-> "object"]
                ELSE [type |-> "string", s |-> "undefined"]
\* The value undefined, which the code compares typeof _gat with.
UndefinedValue == [type |-> "undefined", s |-> ""]
\* typeof _gat != undefined
GatCheck(g) == TypeofGat(g) # UndefinedValue

\* A test that leaves out the comparison with null.
PlainPageviewOnly200(status) == Loose200(status)

\* settings.status_code == null || settings.status_code == 200
PlainPageview(status) == LooseNull(status) \/ Loose200(status)

\* The virtual path of an error page.
ErrorPath(status, loc) ==
  "/" \o status \o ".html?page=" \o loc.pathname \o loc.search \o "&from=" \o loc.referrer

\* A factory whose result is lost.
GetTrackerLost(account_id) == "undefined"

\* _gat._getTracker(account_id)
GetTracker(account_id) == account_id

\* init_analytics() of the closure c, with the global _gat in state g and the
\* handle pt: the handle afterwards and the calls made.
InitAnalytics(c, g, pt, loc, dflt, cons) ==
  IF GatCheck(g)
    THEN
      LET eff1 == Debug("Google Analytics loaded", NoEffects, dflt, cons) IN
      IF g # "defined"
        THEN \* evaluating _gat._getTracker raises; pageTracker is not assigned
             [pt |-> pt,
              eff |-> [eff1 EXCEPT !.thrown = "ReferenceError: _gat is not defined"]]
        ELSE
          LET t == GetTracker(c.account_id)
              status == c.settings.status_code.v
          IN IF PlainPageview(status)
               THEN [pt |-> t,
                     eff |-> [eff1 EXCEPT !.pv = Append(@, [tracker |-> t, args |-> <<>>])]]
               ELSE [pt |-> t,
                     eff |-> [Debug("Tracking error " \o status, eff1, dflt, cons)
                                EXCEPT !.pv = Append(@, [tracker |-> t,
                                                         args |-> <<ErrorPath(status, loc)>>])]]
    ELSE [pt |-> pt, eff |-> [NoEffects EXCEPT !.thrown = "_gat is undefined"]]

\* ------------------------------------------------------------- operations
\* What an operation leaves in last: its name, the elements and arguments it
\* was given, the elements marked and the handle before it, and its effects.
Last(op, elems, args, eff) ==
  [op |-> op, elems |-> elems, args |-> args,
   pre |-> {e \in Elements : marked[e]}, prePt |-> pageTracker,
   cb |-> eff.cb, ran |-> eff.ran, ret |-> eff.ret, te |-> eff.te, rec |-> eff.rec, pv |-> eff.pv, gs |-> eff.gs,
   dbg |-> eff.dbg, out |-> eff.out, thrown |-> eff.thrown]

\* The jQuery sets $.fn.track is called on: sequences of distinct elements.
ElementSeqs ==
  { <<e>> : e \in Elements } \cup
  { s \in { <<e1, e2>> : e1 \in Elements, e2 \in Elements } : s[1] # s[2] }

EventNames == {"click", "mouseover"}

Init ==
  /\ pageTracker = "undefined"
  /\ gat = "undeclared"
  /\ windowLoaded = FALSE
  /\ loadHandlers = <<>>
  /\ pendingLoads = <<>>
  /\ nPageCalls = 0
  /\ marked = [e \in Elements |-> FALSE]
  /\ listeners = [e \in Elements |-> <<>>]
  /\ href = [e \in Elements |-> IF e = "a1" THEN "http://site.example/a"
                                  ELSE "http://other.example/b"]
  /\ defaults = TrackDefaults
  /\ pageOptions = NoOptions
  /\ console \in BOOLEAN
  /\ nEvents = 0
  /\ nPageviews = 0
  /\ last = [op |-> "init", elems |-> <<>>, args |-> <<>>, pre |-> {}, prePt |-> "undefined",
             cb |-> <<>>, ran |-> <<>>, ret |-> <<>>, te |-> <<>>, rec |-> <<>>, pv |-> <<>>, gs |-> <<>>,
             dbg |-> <<>>, out |-> <<>>, thrown |-> "none"]

\* $(seq).track(options)
Track(seq, options) ==
  LET st == EachTrack(seq, 1, options,
                      [marked |-> marked, listeners |-> listeners, eff |-> NoEffects],
                      href, defaults, console)
  IN /\ marked' = st.marked
     /\ listeners' = st.listeners
     /\ last' = Last("track", seq, <<>>, st.eff)
     /\ UNCHANGED <<pageTracker, gat, windowLoaded, loadHandlers, pendingLoads, nPageCalls,
                    href, defaults, console, nEvents, nPageviews,
                    pageOptions>>

\* The user triggers event ev on element e.
Fire(e, ev) ==
  LET eff == Trigger(listeners[e], 1, e, ev, pageTracker, NoEffects, href,
                     [dflt |-> defaults, cons |-> console])
  IN /\ nEvents + Len(eff.rec) <= MaxEvents
     /\ nEvents' = nEvents + Len(eff.rec)
     /\ last' = Last("fire", <<e>>, <<ev>>, eff)
     /\ UNCHANGED <<pageTracker, gat, windowLoaded, loadHandlers, pendingLoads, nPageCalls,
                    marked, listeners, href, defaults, console, nPageviews,
                    pageOptions>>

\* The page calls $.trackEvent(category, action, label, value) itself.
TrackEventCall(category, action, label, value) ==
  LET eff == TrackEvent(category, action, label, value, pageTracker, NoEffects,
                        defaults, console)
  IN /\ nEvents + Len(eff.rec) <= MaxEvents
     /\ nEvents' = nEvents + Len(eff.rec)
     /\ last' = Last("trackEvent", <<>>, <<category, action, label, value>>, eff)
     /\ UNCHANGED <<pageTracker, gat, windowLoaded, loadHandlers, pendingLoads, nPageCalls,
                    marked, listeners, href, defaults, console, nPageviews,
                    pageOptions>>

\* $.trackPage(account_id, {onload: onload, status_code: status})
TrackPage(account_id, onload, status) ==
  LET settings == Extend(PageDefaults, [onload |-> Lit(onload), status_code |-> Lit(status)])
      c == [account_id |-> account_id, settings |-> settings]
  IN /\ nPageCalls < MaxPageCalls
     /\ nPageCalls' = nPageCalls + 1
     /\ IF Deferred(settings.onload.v)
          THEN /\ loadHandlers' = Append(loadHandlers, c)
               /\ pendingLoads' = pendingLoads
               /\ last' = Last("trackPage", <<>>, <<account_id, onload, status>>, NoEffects)
          ELSE /\ pendingLoads' = Append(pendingLoads, c)
               /\ loadHandlers' = loadHandlers
               /\ last' = Last("trackPage", <<>>, <<account_id, onload, status>>,
                               [NoEffects EXCEPT !.gs = <<account_id>>])
     /\ UNCHANGED <<pageTracker, gat, windowLoaded, marked, listeners, href, defaults,
                    console, nEvents, nPageviews,
                    pageOptions>>

\* The window's load event fires: every bound load_script runs, in binding order.
WindowLoad ==
  /\ ~windowLoaded
  /\ windowLoaded' = TRUE
  /\ pendingLoads' = pendingLoads \o loadHandlers
  /\ last' = Last("windowLoad", <<>>, <<>>,
                  [NoEffects EXCEPT !.gs = [i \in 1..Len(loadHandlers) |->
                                              loadHandlers[i].account_id]])
  /\ UNCHANGED <<pageTracker, gat, loadHandlers, nPageCalls, marked, listeners, href,
                 defaults, console, nEvents, nPageviews,
                    pageOptions>>

Remove(s, i) == [j \in 1..(Len(s) - 1) |-> IF j < i THEN s[j] ELSE s[j + 1]]

\* Request i completes: the fetched script has run (defining _gat if it is the
\* tracking library: library = TRUE) and the $.getScript callback calls init_analytics.
ScriptLoaded(i, library, loc) ==
  LET c == pendingLoads[i]
      g == IF library THEN "defined" ELSE gat
      r == InitAnalytics(c, g, pageTracker, loc, defaults, console)
  IN /\ gat' = g
     /\ pageTracker' = r.pt
     /\ nPageviews' = nPageviews + Len(r.eff.pv)
     /\ pendingLoads' = Remove(pendingLoads, i)
     /\ last' = Last("scriptLoaded", <<>>,
                     <<c.account_id, c.settings.status_code.v, loc.pathname, loc.search,
                       loc.referrer, c.settings.onload.v>>, r.eff)
     /\ UNCHANGED <<windowLoaded, loadHandlers, nPageCalls, marked, listeners, href,
                    defaults, console, nEvents,
                    pageOptions>>

\* Request i fails: $.getScript never calls its success callback.
ScriptFailed(i) ==
  /\ pendingLoads' = Remove(pendingLoads, i)
  /\ last' = Last("scriptFailed", <<>>, <<>>, NoEffects)
  /\ UNCHANGED <<pageTracker, gat, windowLoaded, loadHandlers, nPageCalls, marked,
                 listeners, href, defaults, console, nEvents, nPageviews,
                    pageOptions>>

\* The page changes the href attribute of e.
SetHref(e, h) ==
  /\ href[e] # h
  /\ href' = [href EXCEPT ![e] = h]
  /\ last' = Last("setHref", <<e>>, <<h>>, NoEffects)
  /\ UNCHANGED <<pageTracker, gat, windowLoaded, loadHandlers, pendingLoads, nPageCalls,
                 marked, listeners, defaults, console, nEvents, nPageviews,
                    pageOptions>>

\* The page sets $.fn.track.defaults.debug.
SetDebug(b) ==
  /\ defaults.debug # Lit(b)
  /\ defaults' = [defaults EXCEPT !.debug = Lit(b)]
  /\ last' = Last("setDebug", <<>>, <<b>>, NoEffects)
  /\ UNCHANGED <<pageTracker, gat, windowLoaded, loadHandlers, pendingLoads, nPageCalls,
                 marked, listeners, href, console, nEvents, nPageviews,
                    pageOptions>>

TrackAny == \E seq \in ElementSeqs, options \in TrackOptions : Track(seq, options)
FireAny == \E e \in Elements, ev \in EventNames : Fire(e, ev)
\* The argument lists the page passes to $.trackEvent: all four given, or label
\* and value left out.
EventArgs == { <<"cat", "act", "lbl", "7">>, <<"cat", "act", "undefined", "undefined">> }
TrackEventAny == \E a \in EventArgs : TrackEventCall(a[1], a[2], a[3], a[4])
\* The calls the page makes to $.trackPage: every onload value with the first
\* account, every status_code with the second.
PageCalls ==
  { <<"UA-1", onload, "undefined">> : onload \in OnloadValues } \cup
  { <<"UA-2", "false", status>> : status \in StatusValues } \cup
  { <<"UA-1", "undefined", "404">> }
TrackPageAny == \E a \in PageCalls : TrackPage(a[1], a[2], a[3])
ScriptLoadedAny ==
  \E i \in 1..Len(pendingLoads), library \in BOOLEAN, loc \in Locations :
    ScriptLoaded(i, library, loc)
ScriptFailedAny == \E i \in 1..Len(pendingLoads) : ScriptFailed(i)
SetHrefAny == \E e \in Elements, h \in Hrefs : SetHref(e, h)
SetDebugAny == \E b \in {"true", "false"} : SetDebug(b)

Next ==
  \/ TrackAny
  \/ FireAny
  \/ TrackEventAny
  \/ TrackPageAny
  \/ WindowLoad
  \/ ScriptLoadedAny
  \/ ScriptFailedAny
  \/ SetHrefAny
  \/ SetDebugAny

\* Every operation of the plugin and of its environment.
Spec == Init /\ [][Next]_vars

\* ------------------------------------------------ the two halves of the plugin
\* The element tracker reads of the page tracker only pageTracker, and the page
\* tracker reads nothing of the elements; each half is explored with every input
\* of its own operations and with the other half's operations on fewer inputs.

\* $.trackPage(account_id, {onload: false}) as the page calls it.
TrackPageNow == \E a \in {"UA-1"} : nPageCalls = 0 /\ TrackPage(a, "false", "undefined")
\* A request completes with the tracking library loaded.
ScriptLoadedOk ==
  \E i \in 1..Len(pendingLoads), loc \in {l \in Locations : l.pathname = "/foo"} :
    ScriptLoaded(i, TRUE, loc)

NextElements ==
  \/ TrackAny
  \/ FireAny
  \/ TrackEventAny
  \/ SetHrefAny
  \/ SetDebugAny
  \/ TrackPageNow
  \/ ScriptLoadedOk

SpecElements == Init /\ [][NextElements]_vars

\* $('a').track() on every anchor of the page, as in the usage note of $.fn.track.
TrackAnchors == \E seq \in {<<"a1", "a2">>} : Track(seq, NoOptions)

NextPage ==
  \/ TrackPageAny
  \/ WindowLoad
  \/ ScriptLoadedAny
  \/ ScriptFailedAny
  \/ TrackEventAny
  \/ TrackAnchors
  \/ FireAny

SpecPage == Init /\ [][NextPage]_vars

\* ------------------------------------------- settings objects that change
\* The page assigns to a field of $.fn.track.defaults.
SetDefault(f, x) ==
  /\ defaults[f] # x
  /\ defaults' = [defaults EXCEPT ![f] = x]
  /\ last' = Last("setDefault", <<>>, <<f>>, NoEffects)
  /\ UNCHANGED <<pageTracker, gat, windowLoaded, loadHandlers, pendingLoads, nPageCalls,
                 marked, listeners, href, pageOptions, console, nEvents, nPageviews>>

\* The page changes the fields of the options object it keeps.
SetPageOptions(o) ==
  /\ pageOptions # o
  /\ pageOptions' = o
  /\ last' = Last("setPageOptions", <<>>, <<>>, NoEffects)
  /\ UNCHANGED <<pageTracker, gat, windowLoaded, loadHandlers, pendingLoads, nPageCalls,
                 marked, listeners, href, defaults, console, nEvents, nPageviews>>

\* The assignments the page makes to $.fn.track.defaults.
DefaultChanges ==
  { <<"skip_internal", Lit("false")>>, <<"skip_internal", Lit("true")>>,
    <<"category", Lit("promo")>>, <<"category", Fn("defaultCategory")>> }

SetDefaultAny == \E c \in DefaultChanges : SetDefault(c[1], c[2])
SetPageOptionsAny == \E o \in TrackOptions : SetPageOptions(o)
\* $(seq).track(options) with the options object the page keeps.
TrackOwn == \E seq \in ElementSeqs : Track(seq, pageOptions)

NextSettings ==
  \/ TrackOwn
  \/ FireAny
  \/ SetDefaultAny
  \/ SetPageOptionsAny

SpecSettings == Init /\ [][NextSettings]_vars

\* The options objects with which the page asks for debugging per call.
DebugOptions == { NoOptions, [NoOptions EXCEPT !.debug = Lit("true")] }
SetPageDebugAny == \E o \in DebugOptions : SetPageOptions(o)

NextDebug ==
  \/ TrackOwn
  \/ FireAny
  \/ TrackEventAny
  \/ SetDebugAny
  \/ SetPageDebugAny

SpecDebug == Init /\ [][NextDebug]_vars

\* ------------------------------------------------------------ properties
\* Number of entries of the sequence s equal to x.
Count(x, s) == Cardinality({i \in 1..Len(s) : s[i] = x})
\* The listeners of e bound to event ev.
BoundTo(e, ev) == SelectSeq(listeners[e], LAMBDA l : l.event_name = ev)
\* The tuple a listener resolved when it was attached.
Resolved(l) == <<l.vals.category, l.vals.action, l.vals.label, l.vals.value>>

\* C1: whatever $.fn.track calls were made, every element has at most one
\* tracking listener, and triggering an event a listener is bound to runs the
\* listener exactly once.
C1_AtMostOneListener ==
  /\ \A e \in Elements : Len(listeners[e]) <= 1
  /\ last.op = "fire" /\ BoundTo(last.elems[1], last.args[1]) # <<>>
       => last.ran = << <<last.elems[1], last.args[1]>> >>

\* C1 witness: an element whose listener is bound to mouseover was passed to
\* $.fn.track again, and it still has that one listener.
C1_Witness ==
  /\ last.op = "track"
  /\ last.elems[1] \in last.pre
  /\ Len(listeners[last.elems[1]]) = 1
  /\ listeners[last.elems[1]][1].event_name = "mouseover"
  /\ Len(last.elems) = 1

\* C2: a $.fn.track call that returns normally leaves every element of its
\* set that was unmarked before the call marked and with one listener, whatever
\* the marks of the other elements of the set.
C2_EachElementIndependently ==
  last.op = "track" /\ last.thrown = "none"
    => \A i \in 1..Len(last.elems) :
         last.elems[i] \notin last.pre
           => marked[last.elems[i]] /\ Len(listeners[last.elems[i]]) = 1

\* C3: when a listener runs, $.trackEvent is not invoked if skip_internal is
\* true and the element's host is the page's host, and is invoked exactly once
\* with the tuple resolved for the element in every other case.
C3_SkipInternalPolicy ==
  last.op = "fire" /\ BoundTo(last.elems[1], last.args[1]) # <<>>
    => LET e == last.elems[1]
           l == BoundTo(e, last.args[1])[1]
       IN IF l.settings.skip_internal = Lit("true") /\ Hostname(href[e]) = LocationHostname
            THEN last.te = <<>>
            ELSE last.te = <<Resolved(l)>>

\* C3 witness: a listener attached with skip_internal false ran on an element
\* of the page's own host and invoked $.trackEvent.
C3_Witness ==
  /\ last.op = "fire"
  /\ Len(last.te) = 1
  /\ Hostname(href[last.elems[1]]) = LocationHostname
  /\ listeners[last.elems[1]][1].settings.skip_internal = Lit("false")

\* C4: while there is no tracker handle, $.trackEvent raises nothing and makes
\* no recording call, the tracker has received no event, and the script-load
\* callback that creates the handle records no event either (no replay).
C4_SoftUnavailability ==
  /\ pageTracker = "undefined" => nEvents = 0 /\ last.rec = <<>>
  /\ last.prePt = "undefined" /\ last.te # <<>> => last.rec = <<>> /\ last.thrown = "none"
  /\ last.op = "scriptLoaded" /\ last.prePt = "undefined" => nEvents = 0 /\ last.rec = <<>>

\* C4 witness: $.trackEvent was called with no handle; it logged its diagnostic
\* and recorded nothing.
C4_Witness ==
  /\ last.op = "trackEvent"
  /\ pageTracker = "undefined"
  /\ last.te = <<last.args>>
  /\ last.dbg = <<"FATAL ERROR: pageTracker is not defined">>

\* C5: for an element a $.fn.track call attaches a listener to, each settings
\* field that is a callback is invoked exactly once with that element during
\* the call and a literal field never; an element that was marked before the
\* call causes no invocation; a listener run invokes no callback and passes on
\* the tuple resolved at attach time.
C5_CallbacksAtAttachTime ==
  /\ last.op = "track" =>
       \A e \in Elements :
         /\ e \in last.pre => \A i \in 1..Len(FieldOrder) : Count(<<e, FieldOrder[i]>>, last.cb) = 0
         /\ e \notin last.pre /\ listeners[e] # <<>> =>
              \A i \in 1..Len(FieldOrder) :
                Count(<<e, FieldOrder[i]>>, last.cb) =
                  IF listeners[e][1].settings[FieldOrder[i]].kind = "fn" THEN 1 ELSE 0
  /\ last.op = "fire" =>
       /\ last.cb = <<>>
       /\ \A i \in 1..Len(last.te) : last.te[i] = Resolved(listeners[last.elems[1]][1])

\* C5 witness: a listener whose label came from the default label callback
\* ran after the element's href had changed, and passed the label on.
C5_Witness ==
  /\ last.op = "fire"
  /\ Len(last.te) = 1
  /\ listeners[last.elems[1]][1].settings.label = Fn("defaultLabel")
  /\ last.te[1][3] # href[last.elems[1]]

\* The onload values for which $.trackPage waits for the window's load event.
WaitsForLoad(onload) == onload \in {"undefined", "true", "null", "1"}

\* C6: a script-load callback that finds the tracking library records exactly
\* one pageview: without a path if status_code is null or 200 (200 also being
\* what an absent status_code is merged to), and otherwise with the path
\* '/' + status_code + '.html?page=' + pathname + search + '&from=' + referrer.
C6_OnePageviewPerLoad ==
  /\ last.op = "scriptLoaded" /\ gat = "defined" =>
       /\ Len(last.pv) = 1
       /\ last.pv[1].tracker = last.args[1]
       /\ IF last.args[2] \in {"null", "200"}
            THEN last.pv[1].args = <<>>
            ELSE last.pv[1].args =
                   << "/" \o last.args[2] \o ".html?page=" \o last.args[3] \o last.args[4]
                        \o "&from=" \o last.args[5] >>
  /\ last.op = "trackPage" /\ last.args[3] = "undefined" =>
       LET q == IF last.gs = <<>> THEN loadHandlers ELSE pendingLoads
       IN q[Len(q)].settings.status_code = Lit("200")

\* C6 witness: status 404 on /foo?x=1 with referrer https://ref.example.
C6_Witness ==
  /\ last.op = "scriptLoaded"
  /\ last.pv = << [tracker |-> last.args[1],
                   args |-> <<"/404.html?page=/foo?x=1&from=https://ref.example">>] >>

\* C7 as claimed: $.trackPage starts no script load within the call when onload
\* is true or not given, and starts it within the call for any other value.
C7_OnloadOnlyWhenTrue ==
  last.op = "trackPage" =>
    IF last.args[2] \in {"true", "undefined"}
      THEN last.gs = <<>>
      ELSE last.gs = <<last.args[1]>>

\* C7 amended: when onload is true, not given, null, or loosely equal to true,
\* $.trackPage starts no script load within the call, and before the window's
\* load event no request of such a call is in flight and none has completed;
\* for any other value (false) the request is started within the call.
C7_OnloadDeferral ==
  /\ last.op = "trackPage" =>
       IF WaitsForLoad(last.args[2])
         THEN last.gs = <<>> /\ loadHandlers # <<>>
         ELSE last.gs = <<last.args[1]>> /\ pendingLoads # <<>>
  /\ ~windowLoaded =>
       /\ \A i \in 1..Len(pendingLoads) : ~WaitsForLoad(pendingLoads[i].settings.onload.v)
       /\ last.op = "scriptLoaded" => ~WaitsForLoad(last.args[6])

\* C7 witness: $.trackPage was given onload null and started no request.
C7_Witness ==
  /\ last.op = "trackPage"
  /\ last.args[2] = "null"
  /\ last.gs = <<>>
  /\ loadHandlers[Len(loadHandlers)].account_id = last.args[1]

\* C8: a script-load callback that finds no tracking library raises
\* '_gat is undefined', does not report the library as loaded, leaves the
\* handle uninitialized and records no pageview.
C8_FailureBranch ==
  last.op = "scriptLoaded" /\ gat # "defined" =>
    /\ last.thrown = "_gat is undefined"
    /\ Count("Google Analytics loaded", last.dbg) = 0
    /\ pageTracker = "undefined"
    /\ last.pv = <<>>

\* C9: with a tracker handle, every $.trackEvent invocation makes exactly one
\* _trackEvent call on that handle, with the same four arguments in order.
C9_ForwardsVerbatim ==
  /\ last.prePt # "undefined" =>
       /\ Len(last.rec) = Len(last.te)
       /\ \A i \in 1..Len(last.te) :
            last.rec[i] = [tracker |-> last.prePt, args |-> last.te[i]]
  /\ last.op = "trackEvent" => last.te = <<last.args>>

\* C9 witness: $.trackEvent was called with label and value left out while a
\* handle existed.
C9_Witness ==
  /\ last.op = "trackEvent"
  /\ last.prePt # "undefined"
  /\ last.args[3] = "undefined"
  /\ Len(last.rec) = 1

\* C10 as claimed: once initialized, the handle is never written again.
C10_WrittenOnce == last.prePt # "undefined" => pageTracker = last.prePt

\* C10 amended: the handle is never reset to uninitialized and only the
\* script-load callback writes it; each callback that finds the tracking
\* library assigns the handle of its own call's account.
C10_NeverResetOnlyCallbackWrites ==
  /\ last.prePt # "undefined" => pageTracker # "undefined"
  /\ pageTracker # last.prePt => last.op = "scriptLoaded"
  /\ last.op = "scriptLoaded" /\ gat = "defined" => pageTracker = last.args[1]

\* C10 witness: a second script-load callback replaced the handle of one
\* account by the handle of another.
C10_Witness ==
  /\ last.op = "scriptLoaded"
  /\ last.prePt # "undefined"
  /\ pageTracker # "undefined"
  /\ pageTracker # last.prePt

\* C11 as claimed: when a listener runs and calls $.trackEvent, no script load
\* of a $.trackPage call is in flight or still waiting for the window's load
\* event.
C11_InitBeforeAnyListener ==
  last.op = "fire" /\ last.te # <<>>
    => pendingLoads = <<>> /\ (loadHandlers = <<>> \/ windowLoaded)

\* C11 amended: nothing orders the script-load callback before a listener; a
\* listener that runs before any callback has created a handle (no pageview
\* recorded yet) finds no handle, and its $.trackEvent call records nothing
\* and raises nothing.
C11_EarlyListenerDropsEvent ==
  last.op = "fire" /\ last.te # <<>> /\ nPageviews = 0
    => /\ last.prePt = "undefined"
       /\ last.rec = <<>>
       /\ last.thrown = "none"
       /\ Count("FATAL ERROR: pageTracker is not defined", last.dbg) = Len(last.te)

\* C11 witness: a listener ran and called $.trackEvent while a script load was
\* in flight, and nothing was recorded.
C11_Witness ==
  /\ last.op = "fire"
  /\ last.te # <<>>
  /\ pendingLoads # <<>>
  /\ last.rec = <<>>

\* C12: for an element a $.fn.track call attaches a listener to, every setting
\* is the option's value where the options name the field and the default
\* otherwise; with the defaults as installed and a field not named, the
\* category is 'internal' for an element of the page's host and 'external'
\* otherwise, the action 'click', the label the element's href, the value null,
\* the event name 'click' and skip_internal true; a literal the options name
\* is the resolved value.
C12_DefaultsAndOverrides ==
  last.op = "track" =>
    \A e \in Elements :
      e \notin last.pre /\ listeners[e] # <<>> =>
        LET l == listeners[e][1]
            o == pageOptions
        IN /\ \A f \in SettingNames :
                l.settings[f] = IF o[f] = Undef THEN defaults[f] ELSE o[f]
           /\ \A i \in 1..Len(FieldOrder) :
                o[FieldOrder[i]].kind = "lit" /\ o[FieldOrder[i]] # Undef
                  => l.vals[FieldOrder[i]] = o[FieldOrder[i]].v
           /\ l.event_name = l.vals.event_name
           /\ defaults = TrackDefaults =>
                /\ o.category = Undef =>
                     l.vals.category = IF Hostname(href[e]) = LocationHostname
                                         THEN "internal" ELSE "external"
                /\ o.action = Undef => l.vals.action = "click"
                /\ o.label = Undef => l.vals.label = href[e]
                /\ o.value = Undef => l.vals.value = "null"
                /\ o.event_name = Undef => l.vals.event_name = "click"
                /\ o.skip_internal = Undef => l.settings.skip_internal = Lit("true")

\* C12 witness: $('a').track() with no options and the installed defaults
\* attached an internal and an external anchor.
C12_Witness ==
  /\ last.op = "track"
  /\ pageOptions = NoOptions
  /\ defaults = TrackDefaults
  /\ last.pre = {}
  /\ \A e \in Elements : listeners[e] # <<>>
  /\ {listeners[e][1].vals.category : e \in Elements} = {"internal", "external"}

\* C13: every run of a listener returns a truthy value: when it skipped, when
\* it called $.trackEvent, and when $.trackEvent found no handle.
C13_ListenerReturnsTruthy ==
  /\ Len(last.ret) = Len(last.ran)
  /\ \A i \in 1..Len(last.ret) : Truthy(last.ret[i])
  /\ last.op = "fire" /\ BoundTo(last.elems[1], last.args[1]) # <<>> => last.ret # <<>>

\* C13 witness: a listener skipped an anchor of the page's own host and
\* returned true.
C13_Witness ==
  /\ last.op = "fire"
  /\ last.ran # <<>>
  /\ last.te = <<>>
  /\ last.ret = <<"true">>

\* C14: the messages an operation writes to the console are all its debug()
\* messages if console.debug exists and $.fn.track.defaults.debug is enabled,
\* and none otherwise, whatever debug value the options of the $.fn.track call
\* gave; an operation that only calls debug() ($.trackEvent without a handle)
\* raises nothing and leaves the handle and the marks as they were.
C14_DebugWritesIffGlobalFlag ==
  /\ last.out = IF console /\ defaults.debug.v = "true" THEN last.dbg ELSE <<>>
  /\ last.op = "trackEvent" /\ last.prePt = "undefined" =>
       /\ last.dbg = <<"FATAL ERROR: pageTracker is not defined">>
       /\ last.thrown = "none"
       /\ pageTracker = last.prePt
       /\ {e \in Elements : marked[e]} = last.pre

\* C14 witness: $.fn.track was called with debug true in its options while the
\* global flag was off and the console existed: debug() was called and wrote
\* nothing.
C14_Witness ==
  /\ last.op = "track"
  /\ pageOptions.debug = Lit("true")
  /\ defaults.debug = Lit("false")
  /\ console
  /\ last.dbg # <<>>
  /\ last.out = <<>>
  /\ \E e \in Elements : listeners[e] # <<>> /\ listeners[e][1].settings.debug = Lit("true")

\* C15: an element carries the class 'tracked' if and only if exactly one
\* tracking listener is bound to it, also after a $.fn.track call in which a
\* settings callback raised.
C15_MarkedIffOneListener ==
  \A e \in Elements : marked[e] <=> Len(listeners[e]) = 1

\* C16: no step changes the listeners of an element that carries the class
\* 'tracked': a $.fn.track call on it, whatever its options, leaves the event
\* name, the resolved tuple and the settings of the first attach in place.
C16_FirstAttachWins ==
  [][\A e \in Elements : marked[e] => listeners'[e] = listeners[e]]_vars

\* C16 witness: $.fn.track was called with skip_internal false and event name
\* mouseover on an element whose listener is bound to click with skip_internal
\* true, and that listener is still the only one.
C16_Witness ==
  /\ last.op = "track"
  /\ last.elems[1] \in last.pre
  /\ pageOptions.skip_internal = Lit("false")
  /\ pageOptions.event_name = Lit("mouseover")
  /\ Len(listeners[last.elems[1]]) = 1
  /\ listeners[last.elems[1]][1].event_name = "click"
  /\ listeners[last.elems[1]][1].settings.skip_internal = Lit("true")

\* C17: a listener acts on the settings of its attach: whatever
\* $.fn.track.defaults and the page's options object hold when it runs, it
\* skips exactly when the skip_internal merged at attach time is true and the
\* element is internal, and otherwise passes on the tuple resolved at attach
\* time; a step that changes the defaults or the options object changes no
\* listener; an element attached afterwards gets the settings merged from the
\* defaults and options of that moment.
C17_SettingsSnapshot ==
  /\ [](last.op = "fire" /\ BoundTo(last.elems[1], last.args[1]) # <<>> =>
          LET l == BoundTo(last.elems[1], last.args[1])[1]
          IN last.te = IF /\ l.settings.skip_internal.v = "true"
                          /\ Hostname(href[last.elems[1]]) = LocationHostname
                         THEN <<>>
                         ELSE << <<l.vals.category, l.vals.action, l.vals.label,
                                   l.vals.value>> >>)
  /\ [][defaults' # defaults \/ pageOptions' # pageOptions => listeners' = listeners]_vars
  /\ [][\A e \in Elements :
          listeners[e] = <<>> /\ listeners'[e] # <<>> =>
            listeners'[e][1].settings = Extend(defaults, pageOptions)]_vars

\* C17 witness: a listener attached under skip_internal true skipped an
\* internal anchor after $.fn.track.defaults.skip_internal had been set to
\* false and the default category replaced.
C17_Witness ==
  /\ last.op = "fire"
  /\ last.ran # <<>>
  /\ last.te = <<>>
  /\ defaults.skip_internal = Lit("false")
  /\ defaults.category = Lit("promo")
  /\ pageOptions.skip_internal = Lit("false")

\* The listeners of e bound to ev that were attached with the installed
\* category and label callbacks and skip_internal true.
DefaultBoundTo(e, ev) ==
  SelectSeq(BoundTo(e, ev),
            LAMBDA l : /\ l.settings.category = Fn("defaultCategory")
                       /\ l.settings.label = Fn("defaultLabel")
                       /\ l.settings.skip_internal = Lit("true"))

\* C18 as claimed: every event a default-configured listener passes to
\* $.trackEvent has category 'external' and comes from an element whose host
\* differs from the page's host when the listener runs.
C18_NeverInternalCategory ==
  last.op = "fire" /\ DefaultBoundTo(last.elems[1], last.args[1]) # <<>> =>
    \A i \in 1..Len(last.te) :
      /\ last.te[i][1] = "external"
      /\ Hostname(href[last.elems[1]]) # LocationHostname

\* C18 amended: every event a default-configured listener passes to
\* $.trackEvent comes from an element whose host differs from the page's host
\* when the listener runs, and carries the category of attach time: 'internal'
\* if the href the element had when it was attached (its resolved label) is of
\* the page's host, 'external' otherwise.
C18_CategoryOfAttachTime ==
  last.op = "fire" /\ DefaultBoundTo(last.elems[1], last.args[1]) # <<>> =>
    LET l == DefaultBoundTo(last.elems[1], last.args[1])[1] IN
    \A i \in 1..Len(last.te) :
      /\ Hostname(href[last.elems[1]]) # LocationHostname
      /\ last.te[i][3] = l.vals.label
      /\ last.te[i][1] = IF Hostname(l.vals.label) = LocationHostname
                           THEN "internal" ELSE "external"

\* C18 witness: an anchor attached with the defaults while internal had its
\* href changed to another host; its listener ran and passed on 'internal'.
C18_Witness ==
  /\ last.op = "fire"
  /\ DefaultBoundTo(last.elems[1], last.args[1]) # <<>>
  /\ Len(last.te) = 1
  /\ last.te[1][1] = "internal"
  /\ Hostname(href[last.elems[1]]) # LocationHostname

====
